---- MODULE Spec2Model ----
(***************************************************************************)
(* Layout and interaction core of emgui (src/emgui/src/layout.rs).         *)
(*                                                                         *)
(* One worker rebuilds the UI every frame: the host calls new_frame, the   *)
(* user callback calls widgets on the current Region (possibly inside the  *)
(* content closures of horizontal and show_popup), and the host drains the *)
(* two graphic layers.  f32 coordinates are modelled as integers; the      *)
(* sizes used are integral, so no rounding is lost.                        *)
(***************************************************************************)
EXTENDS Integers, Sequences, FiniteSets

(***************************************************************************)
(* Bounds of the model.                                                    *)
(***************************************************************************)
\* widget calls (reserve_space, label, horizontal, show_popup) per frame
MaxOps == 3
\* nesting depth of content closures below the root region
MaxDepth == 2

(***************************************************************************)
(* Program constants.                                                      *)
(***************************************************************************)
\* std::f32::INFINITY, the popup region's available height
INFINITY == 1000000
\* width of the popup region's available space
PopupWidth == 400

vec2(x, y) == [x |-> x, y |-> y]

\* LayoutOptions::default
DefaultOptions ==
    [ item_spacing     |-> vec2(8, 4),
      window_padding   |-> vec2(6, 6),
      indent           |-> 21,
      button_padding   |-> vec2(5, 3),
      start_icon_width |-> 20 ]

\* Option<Id>
None == [some |-> FALSE, v |-> 0]
Some(i) == [some |-> TRUE, v |-> i]

(***************************************************************************)
(* Inputs the actions draw from.                                           *)
(***************************************************************************)
\* content sizes handed to reserve_space / measured by layout_text
Sizes == { vec2(20, 14), vec2(30, 14) }
\* interaction ids of the interactive widgets
Ids == { 1, 2 }
\* mouse positions: inside the first rect of a region rooted at (0,0) and of
\* a popup anchored at (0,0), inside the second rect of both, and nowhere
MousePositions == { vec2(10, 10), vec2(10, 25), vec2(200, 200) }
\* anchor positions of popups
PopupAnchors == { vec2(0, 0), vec2(40, 40) }
\* GuiInput snapshots.  mouse_clicked means the button went down this frame,
\* so it comes with mouse_down.
GuiInputs ==
    { i \in [ mouse_pos : MousePositions, mouse_down : BOOLEAN, mouse_clicked : BOOLEAN ] :
        i.mouse_clicked => i.mouse_down }
\* the whole-screen region the host builds for a frame
ScreenSize == vec2(400, 300)

(***************************************************************************)
(* Vec2 / Rect arithmetic (crate::math).                                   *)
(***************************************************************************)
Max(a, b) == IF a >= b THEN a ELSE b

\* f32 subtraction: INFINITY - x = INFINITY
FSub(a, b) == IF a = INFINITY THEN INFINITY ELSE a - b

VAdd(a, b) == vec2(a.x + b.x, a.y + b.y)
VSub(a, b) == vec2(a.x - b.x, a.y - b.y)
VScale(k, a) == vec2(k * a.x, k * a.y)

\* Rect::contains
RectContains(rect, p) ==
    /\ rect.pos.x <= p.x /\ p.x <= rect.pos.x + rect.size.x
    /\ rect.pos.y <= p.y /\ p.y <= rect.pos.y + rect.size.y

(***************************************************************************)
(* State.                                                                  *)
(***************************************************************************)
VARIABLES
    input,              \* Data.input: the frame's GuiInput
    memory,             \* Data.memory: [active_id, open_foldables]
    graphics,           \* Data.graphics.graphics: the base layer
    hovering_graphics,  \* Data.graphics.hovering_graphics: the overlay layer
    stack,              \* the Regions of the running call tree, root first,
                        \* each with the locals of the call that made it
    phase,              \* "idle" (before new_frame) or "frame" (being built)
    nops,               \* widget calls made in this frame
    out,                \* what the last drain returned
    last,               \* observation: the last call, its arguments and result
    obs,                \* observation: per Region of the stack, what was
                        \* reserved in it and the layers when it was entered
    frameActive,        \* observation: ids returned active in this frame
    sinceClick,         \* observation: ids returned active since active_id
                        \* was last written
    lastClicked,        \* observation: id of the last clicked reservation
    held,               \* observation: no frame began with the mouse up since
                        \* that click
    app,                \* the caller's variables bound to widgets by &mut:
                        \* the checkbox's boolean and the slider's value
    wobs,               \* observation: the last widget call and its result
    conc                \* the workers that build a frame concurrently: where
                        \* each one is, its locals, and who holds the locks

vars == << input, memory, graphics, hovering_graphics, stack, phase, nops, out,
           last, obs, frameActive, sinceClick, lastClicked, held, app, wobs, conc >>

\* the variables the single-worker layout actions leave alone
ext == << app, wobs, conc >>

\* the caller's variables before the first frame
AppInit == [checked |-> FALSE, value |-> 3]
WObsInit ==
    [ call     |-> [op |-> "new"],  \* the last widget or host call
      flips    |-> 0,              \* flips of the checkbox since the last click edge
      cb_calls |-> 0,              \* checkbox calls in this frame
      multi    |-> FALSE,          \* some frame since the click edge called it twice
      closed   |-> {},             \* ids a click took out of open_foldables
      left     |-> {},             \* open_foldables as the last foldable call left it
      toggled  |-> {},             \* ids whose header was clicked in this frame
      carried  |-> 0 ]             \* commands in the layers when the frame began
\* the workers that build one frame over one shared Data, and the two
\* Mutexes of Data
Workers == { 1, 2 }
Locks == { "memory", "graphics" }
\* no worker has started: each is ready to call a widget, holds no lock, and
\* no add_contents is running
ConcInit ==
    [ pc       |-> [w \in Workers |-> "ready"],  \* the critical section ahead
      in       |-> [w \in Workers |-> FALSE],    \* inside it, past lock()
      holds    |-> [w \in Workers |-> {}],       \* the guards the worker has
      frames   |-> [w \in Workers |-> << >>],    \* calls whose add_contents runs
      ops      |-> 0,                            \* widget calls made, by all
      open     |-> [w \in Workers |-> FALSE],    \* `open` of the foldable call
      poisoned |-> {},                           \* Mutexes a panic poisoned
      plain    |-> 0,                            \* commands pushed outside popups
      call     |-> [op |-> "new"] ]              \* the last show_popup return

Top == stack[Len(stack)]
TopRegion == Top.region

SetTopRegion(s, r) == [s EXCEPT ![Len(s)].region = r]

(***************************************************************************)
(* Faulty variants of reserve_space_inner, used to test the layout claims. *)
(***************************************************************************)
\* the Vertical branch advances the cursor by the width instead of the height
reserve_space_inner_cursor_swapped(self, size) ==
    IF self.dir = "Horizontal"
    THEN [self EXCEPT
            !.cursor.x = @ + size.x,
            !.available_space.x = FSub(@, size.x),
            !.bounding_size.x = @ + size.x,
            !.bounding_size.y = Max(@, size.y)]
    ELSE [self EXCEPT
            !.cursor.y = @ + size.x,
            !.available_space.y = FSub(@, size.x),
            !.bounding_size.y = @ + size.y,
            !.bounding_size.x = Max(@, size.x)]

\* the bounding size is summed on both axes instead of sum / max
reserve_space_inner_sum_both(self, size) ==
    IF self.dir = "Horizontal"
    THEN [self EXCEPT
            !.cursor.x = @ + size.x,
            !.available_space.x = FSub(@, size.x),
            !.bounding_size.x = @ + size.x,
            !.bounding_size.y = @ + size.y]
    ELSE [self EXCEPT
            !.cursor.y = @ + size.y,
            !.available_space.y = FSub(@, size.x),
            !.bounding_size.y = @ + size.y,
            !.bounding_size.x = @ + size.x]

(***************************************************************************)
(* Region::reserve_space_inner                                             *)
(***************************************************************************)
reserve_space_inner(self, size) ==
    IF self.dir = "Horizontal"
    THEN [self EXCEPT
            !.cursor.x = @ + size.x,
            !.available_space.x = FSub(@, size.x),
            !.bounding_size.x = @ + size.x,
            !.bounding_size.y = Max(@, size.y)]
    ELSE [self EXCEPT
            !.cursor.y = @ + size.y,
            !.available_space.y = FSub(@, size.x),
            !.bounding_size.y = @ + size.y,
            !.bounding_size.x = Max(@, size.x)]

(***************************************************************************)
(* Faulty variants of the active resolution.                               *)
(***************************************************************************)
\* a click reports active but is not stored in Memory
resolve_active_no_store(mem, interaction_id, clicked) ==
    IF interaction_id.some
    THEN [memory |-> mem, active |-> (clicked \/ mem.active_id = interaction_id)]
    ELSE [memory |-> mem, active |-> FALSE]

\* a click takes the activity only when nobody holds it
resolve_active_first_wins(mem, interaction_id, clicked) ==
    IF interaction_id.some
    THEN LET m == IF clicked /\ ~mem.active_id.some
                  THEN [mem EXCEPT !.active_id = interaction_id] ELSE mem
         IN  [memory |-> m, active |-> (m.active_id = interaction_id)]
    ELSE [memory |-> mem, active |-> FALSE]

(***************************************************************************)
(* Region::reserve_space, lines 562-570: the active resolution under the   *)
(* Memory lock.  Returns the memory and the `active` flag.                 *)
(***************************************************************************)
resolve_active(mem, interaction_id, clicked) ==
    IF interaction_id.some
    THEN LET m == IF clicked THEN [mem EXCEPT !.active_id = interaction_id] ELSE mem
         IN  [memory |-> m, active |-> (m.active_id = interaction_id)]
    ELSE [memory |-> mem, active |-> FALSE]

\* Faulty variant of reserve_space: a widget that is not hovered gives up the
\* activity it holds.
reserve_space_clear_on_unhover(self, mem, gui_input, options, size, interaction_id) ==
    LET rect    == [pos |-> self.cursor, size |-> size]
        region  == reserve_space_inner(self, VAdd(size, options.item_spacing))
        hovered == RectContains(rect, gui_input.mouse_pos)
        clicked == hovered /\ gui_input.mouse_clicked
        m       == IF ~hovered /\ interaction_id.some /\ mem.active_id = interaction_id
                   THEN [mem EXCEPT !.active_id = None] ELSE mem
        res     == resolve_active(m, interaction_id, clicked)
    IN  [ region   |-> region,
          memory   |-> res.memory,
          rect     |-> rect,
          interact |-> [hovered |-> hovered, clicked |-> clicked, active |-> res.active] ]

(***************************************************************************)
(* Region::reserve_space                                                   *)
(***************************************************************************)
reserve_space(self, mem, gui_input, options, size, interaction_id) ==
    LET rect    == [pos |-> self.cursor, size |-> size]
        region  == reserve_space_inner(self, VAdd(size, options.item_spacing))
        hovered == RectContains(rect, gui_input.mouse_pos)
        clicked == hovered /\ gui_input.mouse_clicked
        res     == resolve_active(mem, interaction_id, clicked)
    IN  [ region   |-> region,
          memory   |-> res.memory,
          rect     |-> rect,
          interact |-> [hovered |-> hovered, clicked |-> clicked, active |-> res.active] ]

\* Faulty variant of new_frame: the test of mouse_down is inverted.
new_frame_clear_when_down(mem, gui_input) ==
    IF gui_input.mouse_down THEN [mem EXCEPT !.active_id = None] ELSE mem

\* Faulty variant of new_frame: the open foldables are forgotten.
new_frame_forget_foldables(mem, gui_input) ==
    IF ~gui_input.mouse_down
    THEN [active_id |-> None, open_foldables |-> {}]
    ELSE [mem EXCEPT !.open_foldables = {}]

(***************************************************************************)
(* Data::new_frame: what it does to Memory.                                *)
(***************************************************************************)
new_frame(mem, gui_input) ==
    IF ~gui_input.mouse_down THEN [mem EXCEPT !.active_id = None] ELSE mem

\* Faulty variant of drain: the commands are returned and left in the layers.
drain_keep_layers(layers) ==
    [ all_commands |-> layers.graphics \o layers.hovering_graphics,
      layers       |-> layers ]

\* Faulty variant of drain: the overlay is returned before the base layer.
drain_overlay_first(layers) ==
    [ all_commands |-> layers.hovering_graphics \o layers.graphics,
      layers       |-> [graphics |-> << >>, hovering_graphics |-> << >>] ]

(***************************************************************************)
(* GraphicLayers::drain: the commands returned and the layers left.        *)
(***************************************************************************)
drain(layers) ==
    [ all_commands |-> layers.graphics \o layers.hovering_graphics,
      layers       |-> [graphics |-> << >>, hovering_graphics |-> << >>] ]

(***************************************************************************)
(* show_popup                                                              *)
(***************************************************************************)
\* lines 205-212: the popup's freshly rooted Region
popup_region(options, window_pos) ==
    [ id              |-> 0,
      dir             |-> "Vertical",
      cursor          |-> VAdd(window_pos, options.window_padding),
      bounding_size   |-> vec2(0, 0),
      available_space |-> vec2(PopupWidth, INFINITY) ]

\* Faulty variant of popup_rect: the padding is added on one side only.
popup_rect_one_padding(options, window_pos, bounding_size) ==
    LET inner_size == VSub(bounding_size, options.item_spacing)
        outer_size == VAdd(inner_size, options.window_padding)
    IN  [pos |-> window_pos, size |-> outer_size]

\* lines 216-220: the window rect from the measured bounding size
popup_rect(options, window_pos, bounding_size) ==
    LET inner_size == VSub(bounding_size, options.item_spacing)
        outer_size == VAdd(inner_size, VScale(2, options.window_padding))
    IN  [pos |-> window_pos, size |-> outer_size]

\* Vec::split_off(at): the kept prefix and the returned tail
split_off(v, at) ==
    [ kept |-> SubSeq(v, 1, at), tail |-> SubSeq(v, at + 1, Len(v)) ]

\* Faulty variant of popup_splice: the popup's block is put in front of what
\* the overlay holds.
popup_splice_in_front(layers, num_graphics_before, window_cmd) ==
    [ graphics          |-> SubSeq(layers.graphics, 1, num_graphics_before),
      hovering_graphics |-> (<< window_cmd >> \o
                             SubSeq(layers.graphics, num_graphics_before + 1,
                                    Len(layers.graphics))) \o layers.hovering_graphics ]

\* Faulty variant of popup_splice: the Window command is pushed after the
\* popup's commands.
popup_splice_window_last(layers, num_graphics_before, window_cmd) ==
    [ graphics          |-> SubSeq(layers.graphics, 1, num_graphics_before),
      hovering_graphics |-> (layers.hovering_graphics \o
                             SubSeq(layers.graphics, num_graphics_before + 1,
                                    Len(layers.graphics))) \o << window_cmd >> ]

\* lines 222-225: move the popup's commands behind a Window command
popup_splice(layers, num_graphics_before, window_cmd) ==
    LET s == split_off(layers.graphics, num_graphics_before)
    IN  [ graphics          |-> s.kept,
          hovering_graphics |-> (layers.hovering_graphics \o << window_cmd >>) \o s.tail ]

(***************************************************************************)
(* Helpers of the actions.                                                 *)
(***************************************************************************)
Layers == [graphics |-> graphics, hovering_graphics |-> hovering_graphics]

\* the whole-screen Region the host hands to the user callback
RootRegion ==
    [ id              |-> 0,
      dir             |-> "Vertical",
      cursor          |-> vec2(0, 0),
      bounding_size   |-> vec2(0, 0),
      available_space |-> ScreenSize ]

StackEntry(kind, region, num_graphics_before, window_pos) ==
    [ kind |-> kind, region |-> region,
      num_graphics_before |-> num_graphics_before, window_pos |-> window_pos ]

\* observation kept beside a stack entry
ObsEntry(region, serial) ==
    [ init_cursor      |-> region.cursor,
      init_available   |-> region.available_space,
      reserved         |-> << >>,     \* content sizes of the reserve_space calls
      only_reserve     |-> TRUE,      \* nothing but reserve_space advanced it
      serial           |-> serial,    \* > 0 for the Region of a popup
      base_at_entry    |-> graphics,
      overlay_at_entry |-> hovering_graphics,
      emitted          |-> << >> ]    \* commands the popup's content pushed

RECURSIVE InnermostPopup(_, _)
\* index of the innermost popup entry of stack s at or below i, 0 if none
InnermostPopup(s, i) ==
    IF i = 0 THEN 0
    ELSE IF s[i].kind = "popup" THEN i ELSE InnermostPopup(s, i - 1)

Owner == LET i == InnermostPopup(stack, Len(stack)) IN IF i = 0 THEN 0 ELSE obs[i].serial

\* a GuiCmd, tagged with the popup call it was pushed under (0: none) and the
\* number of the widget call that pushed it
GuiCmd(cmd, pos, size) ==
    [ cmd |-> cmd, pos |-> pos, size |-> size, owner |-> Owner, n |-> nops + 1 ]

\* obs after a command was pushed: the content of the innermost running popup
\* emitted it
Emit(o, c) ==
    LET i == InnermostPopup(stack, Len(stack))
    IN  IF i = 0 THEN o ELSE [o EXCEPT ![i].emitted = Append(@, c)]

Reserved(o, size) == [o EXCEPT ![Len(o)].reserved = Append(@, size)]

\* bookkeeping of the `active` results
NoteActive(set, interaction_id, interact) ==
    IF interaction_id.some /\ interact.active THEN set \cup {interaction_id.v} ELSE set

(***************************************************************************)
(* Actions.                                                                *)
(***************************************************************************)
Init ==
    /\ input = [mouse_pos |-> vec2(200, 200), mouse_down |-> FALSE, mouse_clicked |-> FALSE]
    /\ memory = [active_id |-> None, open_foldables |-> {}]
    /\ graphics = << >>
    /\ hovering_graphics = << >>
    /\ stack = << >>
    /\ phase = "idle"
    /\ nops = 0
    /\ out = << >>
    /\ last = [op |-> "new", pre_active |-> None]
    /\ obs = << >>
    /\ frameActive = {}
    /\ sinceClick = {}
    /\ lastClicked = None
    /\ held = FALSE
    /\ app = AppInit
    /\ wobs = WObsInit
    /\ conc = ConcInit

\* The host starts a frame: Data::new_frame(gui_input), then the root Region.
NewFrame ==
    /\ phase = "idle"
    /\ \E gui_input \in GuiInputs :
        /\ input' = gui_input
        /\ memory' = new_frame(memory, gui_input)
    /\ phase' = "frame"
    /\ nops' = 0
    /\ stack' = << StackEntry("root", RootRegion, 0, vec2(0, 0)) >>
    /\ obs' = << ObsEntry(RootRegion, 0) >>
    /\ out' = << >>
    /\ last' = [op |-> "new_frame", pre_active |-> memory.active_id]
    /\ frameActive' = {}
    /\ sinceClick' = {}
    /\ held' = (held /\ input'.mouse_down)
    /\ UNCHANGED << graphics, hovering_graphics, lastClicked >>
    /\ UNCHANGED ext

CanCall == phase = "frame" /\ nops < MaxOps

\* what a reserve_space call on the current Region leaves behind
AfterReserve(size, interaction_id, r, o) ==
    /\ memory' = r.memory
    /\ stack' = SetTopRegion(stack, r.region)
    /\ obs' = Reserved(o, size)
    /\ nops' = nops + 1
    /\ last' = [ op |-> "reserve_space", pre_active |-> memory.active_id,
                 interaction_id |-> interaction_id, size |-> size,
                 rect |-> r.rect, interact |-> r.interact,
                 pre |-> TopRegion ]
    /\ frameActive' = NoteActive(frameActive, interaction_id, r.interact)
    /\ sinceClick' = NoteActive(IF interaction_id.some /\ r.interact.clicked
                                THEN {} ELSE sinceClick,
                                interaction_id, r.interact)
    /\ lastClicked' = IF interaction_id.some /\ r.interact.clicked
                      THEN interaction_id ELSE lastClicked
    /\ held' = (held \/ (interaction_id.some /\ r.interact.clicked))

\* Region::reserve_space(size, Some(id)) on the current Region
ReserveSpace ==
    /\ CanCall
    /\ \E size \in Sizes, id \in Ids :
        AfterReserve(size, Some(id),
                     reserve_space(TopRegion, memory, input, DefaultOptions, size, Some(id)),
                     obs)
    /\ UNCHANGED << input, graphics, hovering_graphics, phase, out >>
    /\ UNCHANGED ext

\* Region::label: add_text at the cursor, then reserve_space(text_size, None)
Label ==
    /\ CanCall
    /\ \E text_size \in Sizes :
        LET c == GuiCmd("Text", TopRegion.cursor, text_size)
        IN  /\ graphics' = Append(graphics, c)
            /\ AfterReserve(text_size, None,
                            reserve_space(TopRegion, memory, input, DefaultOptions,
                                          text_size, None),
                            Emit(obs, c))
    /\ UNCHANGED << input, hovering_graphics, phase, out >>
    /\ UNCHANGED ext

\* Region::horizontal, up to the call of add_contents
HorizontalEnter ==
    /\ CanCall
    /\ Len(stack) <= MaxDepth
    /\ LET child_region == [ id              |-> TopRegion.id,
                             dir             |-> "Horizontal",
                             cursor          |-> TopRegion.cursor,
                             bounding_size   |-> vec2(0, 0),
                             available_space |-> TopRegion.available_space ]
       IN  /\ stack' = Append(stack, StackEntry("horizontal", child_region, 0, vec2(0, 0)))
           /\ obs' = Append(obs, ObsEntry(child_region, 0))
    /\ nops' = nops + 1
    /\ last' = [op |-> "horizontal_enter", pre_active |-> memory.active_id]
    /\ UNCHANGED << input, memory, graphics, hovering_graphics, phase, out,
                    frameActive, sinceClick, lastClicked, held >>
    /\ UNCHANGED ext

\* Region::horizontal, after add_contents returned
HorizontalReturn ==
    /\ phase = "frame"
    /\ Len(stack) > 1
    /\ Top.kind = "horizontal"
    /\ LET size   == TopRegion.bounding_size
           parent == Len(stack) - 1
       IN  /\ stack' = [SubSeq(stack, 1, parent) EXCEPT
                            ![parent].region = reserve_space_inner(@, size)]
           /\ obs' = [SubSeq(obs, 1, parent) EXCEPT ![parent].only_reserve = FALSE]
    /\ last' = [op |-> "horizontal", pre_active |-> memory.active_id]
    /\ UNCHANGED << input, memory, graphics, hovering_graphics, phase, nops, out,
                    frameActive, sinceClick, lastClicked, held >>
    /\ UNCHANGED ext

\* show_popup, up to the call of add_contents
ShowPopupEnter ==
    /\ CanCall
    /\ Len(stack) <= MaxDepth
    /\ \E window_pos \in PopupAnchors :
        LET num_graphics_before == Len(graphics)
            region == popup_region(DefaultOptions, window_pos)
        IN  /\ stack' = Append(stack, StackEntry("popup", region, num_graphics_before,
                                                 window_pos))
            /\ obs' = Append(obs, ObsEntry(region, nops + 1))
            /\ last' = [ op |-> "show_popup_enter", pre_active |-> memory.active_id,
                         window_pos |-> window_pos ]
    /\ nops' = nops + 1
    /\ UNCHANGED << input, memory, graphics, hovering_graphics, phase, out,
                    frameActive, sinceClick, lastClicked, held >>
    /\ UNCHANGED ext

\* show_popup, after add_contents returned
ShowPopupReturn ==
    /\ phase = "frame"
    /\ Len(stack) > 1
    /\ Top.kind = "popup"
    /\ LET rect   == popup_rect(DefaultOptions, Top.window_pos, TopRegion.bounding_size)
           o      == obs[Len(obs)]
           window == [ cmd |-> "Window", pos |-> rect.pos, size |-> rect.size,
                       owner |-> o.serial, n |-> o.serial ]
           l      == popup_splice(Layers, Top.num_graphics_before, window)
       IN  /\ graphics' = l.graphics
           /\ hovering_graphics' = l.hovering_graphics
           /\ last' = [ op |-> "show_popup", pre_active |-> memory.active_id,
                        window_pos |-> Top.window_pos, rect |-> rect,
                        region |-> TopRegion, obs |-> o ]
    /\ stack' = SubSeq(stack, 1, Len(stack) - 1)
    /\ obs' = SubSeq(obs, 1, Len(obs) - 1)
    /\ UNCHANGED << input, memory, phase, nops, out, frameActive, sinceClick, lastClicked, held >>
    /\ UNCHANGED ext

\* The user callback has returned and the host calls GraphicLayers::drain.
Drain ==
    /\ phase = "frame"
    /\ Len(stack) = 1
    /\ LET d == drain(Layers)
       IN  /\ out' = d.all_commands
           /\ graphics' = d.layers.graphics
           /\ hovering_graphics' = d.layers.hovering_graphics
           /\ last' = [ op |-> "drain", pre_active |-> memory.active_id,
                        base |-> graphics, overlay |-> hovering_graphics ]
    /\ phase' = "idle"
    /\ stack' = << >>
    /\ obs' = << >>
    /\ UNCHANGED << input, memory, nops, frameActive, sinceClick, lastClicked, held >>
    /\ UNCHANGED ext

Next ==
    \/ NewFrame
    \/ ReserveSpace
    \/ Label
    \/ HorizontalEnter
    \/ HorizontalReturn
    \/ ShowPopupEnter
    \/ ShowPopupReturn
    \/ Drain

Spec == Init /\ [][Next]_vars

(***************************************************************************)
(* Properties.                                                             *)
(***************************************************************************)
IsReserve == last.op = "reserve_space"
IsInteractive == IsReserve /\ last.interaction_id.some
ActiveIdSet == IF memory.active_id.some THEN {memory.active_id.v} ELSE {}

\* C1 as stated: within one frame, all reserve_space calls that return
\* active == true carry the same interaction id, also in the frame in which a
\* click moves the activity from one widget to another.
C1_OneActiveIdPerFrame == Cardinality(frameActive) <= 1

\* C1 amended: Memory holds at most one active id, every call that returns
\* active == true carries the id Memory holds when it returns, and all calls
\* that return active == true between two writes of active_id (the start of the
\* frame, or a click on an interactive widget) carry the same id.
C1_OneActiveIdBetweenWrites ==
    /\ Cardinality(sinceClick) <= 1
    /\ sinceClick \subseteq ActiveIdSet
    /\ (IsInteractive /\ last.interact.active => memory.active_id = last.interaction_id)

\* C1 witness: a frame in which the activity went from one id to another; both
\* returned active, the second one since the click.
C1_Witness ==
    /\ Cardinality(frameActive) = 2
    /\ Cardinality(sinceClick) = 1
    /\ IsInteractive /\ last.interact.clicked /\ last.pre_active.some
    /\ last.pre_active # last.interaction_id

\* C2: a clicked reserve_space(_, Some(B)) leaves active_id = B whoever held it
\* and returns active; a later call for another id A that is not clicked, with
\* no click on A since, returns active == false.
C2_LastClickWins ==
    IsInteractive =>
        /\ last.interact.clicked =>
              /\ memory.active_id = last.interaction_id
              /\ last.interact.active
        /\ (~last.interact.clicked /\ lastClicked.some /\ lastClicked # last.interaction_id)
              => ~last.interact.active

\* C2 witness: A returned active earlier in this frame, B was clicked, and a
\* later unclicked call for A returns active == false.
C2_Witness ==
    /\ IsInteractive
    /\ ~last.interact.clicked /\ ~last.interact.active
    /\ lastClicked.some /\ lastClicked # last.interaction_id
    /\ last.interaction_id.v \in frameActive
    /\ memory.active_id = lastClicked

\* C3: new_frame with the mouse up leaves active_id = None, wherever the mouse
\* is, and nothing in that frame is active; new_frame with the mouse down
\* leaves active_id as it was.
C3_ReleaseClearsActive ==
    /\ last.op = "new_frame" =>
          IF input.mouse_down THEN memory.active_id = last.pre_active
                              ELSE memory.active_id = None
    /\ (phase = "frame" /\ ~input.mouse_down) =>
          /\ memory.active_id = None
          /\ (IsReserve /\ ~last.interact.clicked) => ~last.interact.active

\* C3 witness: the widget clicked last is hovered in a frame with the mouse up
\* and is not active.
C3_Witness ==
    /\ IsInteractive
    /\ ~input.mouse_down
    /\ last.interact.hovered
    /\ lastClicked = last.interaction_id
    /\ ~last.interact.active

RECURSIVE SumX(_), SumY(_), MaxX(_), MaxY(_)
SumX(sizes) == IF sizes = << >> THEN 0 ELSE Head(sizes).x + SumX(Tail(sizes))
SumY(sizes) == IF sizes = << >> THEN 0 ELSE Head(sizes).y + SumY(Tail(sizes))
MaxX(sizes) == IF sizes = << >> THEN 0 ELSE Max(Head(sizes).x, MaxX(Tail(sizes)))
MaxY(sizes) == IF sizes = << >> THEN 0 ELSE Max(Head(sizes).y, MaxY(Tail(sizes)))

\* the Regions of the call tree that only reserve_space calls have advanced
ReserveOnly == { i \in 1..Len(stack) : obs[i].only_reserve }
Spacing == DefaultOptions.item_spacing

\* C5: after N reserve_space calls in a Vertical region the cursor has moved
\* down by the sum of (h_i + item_spacing.y) and not sideways; in a Horizontal
\* region it has moved right by the sum of (w_i + item_spacing.x) and not down.
\* Each rect sits at the cursor held before the call and has the content size.
C5_CursorAccounting ==
    /\ IsReserve => (last.rect.pos = last.pre.cursor /\ last.rect.size = last.size)
    /\ \A i \in ReserveOnly :
        LET r == stack[i].region
            o == obs[i]
            N == Len(o.reserved)
        IN  IF r.dir = "Vertical"
            THEN /\ r.cursor.y - o.init_cursor.y = SumY(o.reserved) + N * Spacing.y
                 /\ r.cursor.x = o.init_cursor.x
            ELSE /\ r.cursor.x - o.init_cursor.x = SumX(o.reserved) + N * Spacing.x
                 /\ r.cursor.y = o.init_cursor.y

\* C5 witness: two reservations of different sizes in a Vertical region.
C5_Witness ==
    /\ IsReserve
    /\ Len(stack) = 1
    /\ TopRegion.dir = "Vertical"
    /\ Len(obs[1].reserved) = 2
    /\ obs[1].reserved[1] # obs[1].reserved[2]
    /\ TopRegion.cursor.y = 36

\* C6 as stated: in a Vertical region after N >= 1 reserve_space calls,
\* bounding_size.x = max(w_i) and bounding_size.y = sum(h_i) + (N-1) *
\* item_spacing.y; symmetrically in a Horizontal region.
C6_BoundingWithoutTrailingSpacing ==
    \A i \in ReserveOnly :
        LET r == stack[i].region
            o == obs[i]
            N == Len(o.reserved)
        IN  N >= 1 =>
            IF r.dir = "Vertical"
            THEN /\ r.bounding_size.x = MaxX(o.reserved)
                 /\ r.bounding_size.y = SumY(o.reserved) + (N - 1) * Spacing.y
            ELSE /\ r.bounding_size.y = MaxY(o.reserved)
                 /\ r.bounding_size.x = SumX(o.reserved) + (N - 1) * Spacing.x

\* C6 amended: every reservation is accounted with its item spacing on both
\* axes: in a Vertical region after N >= 1 reserve_space calls bounding_size.x
\* = max(w_i) + item_spacing.x and bounding_size.y = sum(h_i) + N *
\* item_spacing.y; symmetrically in a Horizontal region.  Sizes (20,14) and
\* (30,14) with item_spacing (8,4) give (38,36).
C6_BoundingWithSpacing ==
    \A i \in ReserveOnly :
        LET r == stack[i].region
            o == obs[i]
            N == Len(o.reserved)
        IN  N >= 1 =>
            IF r.dir = "Vertical"
            THEN /\ r.bounding_size.x = MaxX(o.reserved) + Spacing.x
                 /\ r.bounding_size.y = SumY(o.reserved) + N * Spacing.y
            ELSE /\ r.bounding_size.y = MaxY(o.reserved) + Spacing.y
                 /\ r.bounding_size.x = SumX(o.reserved) + N * Spacing.x

\* C6 witness: the two labels of the scenario, (20,14) then (30,14), in a
\* Vertical region.
C6_Witness ==
    /\ IsReserve
    /\ Len(stack) = 1
    /\ TopRegion.dir = "Vertical"
    /\ obs[1].reserved = << vec2(20, 14), vec2(30, 14) >>
    /\ TopRegion.bounding_size = vec2(38, 36)

\* C7: a reserve_space call shrinks available_space by content_size +
\* item_spacing on the primary axis of the region and leaves the other axis.
C7_AvailableSpaceAccounting ==
    (IsReserve /\ last.pre.available_space.x # INFINITY
               /\ last.pre.available_space.y # INFINITY) =>
        LET before == last.pre.available_space
            after  == TopRegion.available_space
        IN  IF last.pre.dir = "Vertical"
            THEN /\ after.y = before.y - (last.size.y + Spacing.y)
                 /\ after.x = before.x
            ELSE /\ after.x = before.x - (last.size.x + Spacing.x)
                 /\ after.y = before.y

\* C8: in the drained output every command pushed inside a show_popup call
\* comes after every base-layer command, also after those pushed by widgets
\* called after the popup.
C8_PopupOrdering ==
    last.op = "drain" =>
        \A i, j \in 1..Len(out) :
            (out[i].owner # 0 /\ out[j].owner = 0) => j < i

\* C8 witness: a drained frame with a popup command and a base-layer command
\* pushed after it.
C8_Witness ==
    /\ last.op = "drain"
    /\ \E i, j \in 1..Len(out) :
        /\ out[i].owner # 0 /\ out[i].cmd = "Text"
        /\ out[j].owner = 0 /\ out[j].n > out[i].n

\* the show_popup call that just returned: its observation, the overlay
\* length at entry and the position of its Window command
PopupObs == last.obs
OverlayAtEntry == Len(PopupObs.overlay_at_entry)
WindowAt == Len(hovering_graphics) - Len(PopupObs.emitted)

\* C9 as stated: when show_popup returns the base layer is what it was at
\* entry and the overlay is its previous contents, one Window command, and
\* the commands the content pushed, in order.
C9_OverlayIsPreviousWindowContent ==
    last.op = "show_popup" =>
        /\ graphics = PopupObs.base_at_entry
        /\ Len(hovering_graphics) = OverlayAtEntry + 1 + Len(PopupObs.emitted)
        /\ SubSeq(hovering_graphics, 1, OverlayAtEntry) = PopupObs.overlay_at_entry
        /\ hovering_graphics[OverlayAtEntry + 1].cmd = "Window"
        /\ SubSeq(hovering_graphics, OverlayAtEntry + 2, Len(hovering_graphics))
              = PopupObs.emitted

\* C9 amended: when show_popup returns the base layer is what it was at entry
\* and the overlay is its previous contents, then whatever the popups opened
\* inside the content appended (nothing when there is none), then one Window
\* command, then the commands the content itself pushed, in order.
C9_PopupSplice ==
    last.op = "show_popup" =>
        /\ graphics = PopupObs.base_at_entry
        /\ WindowAt > OverlayAtEntry
        /\ SubSeq(hovering_graphics, 1, OverlayAtEntry) = PopupObs.overlay_at_entry
        /\ \A k \in (OverlayAtEntry + 1)..(WindowAt - 1) :
              hovering_graphics[k].owner > PopupObs.serial
        /\ hovering_graphics[WindowAt].cmd = "Window"
        /\ hovering_graphics[WindowAt].owner = PopupObs.serial
        /\ SubSeq(hovering_graphics, WindowAt + 1, Len(hovering_graphics))
              = PopupObs.emitted

\* C9 witness: a popup entered with a base layer of one command, whose content
\* pushed a command, has returned.
C9_Witness ==
    /\ last.op = "show_popup"
    /\ Len(PopupObs.base_at_entry) = 1
    /\ Len(PopupObs.emitted) = 1
    /\ graphics = PopupObs.base_at_entry
    /\ Len(hovering_graphics) = 2

\* C10 as stated: the Window command has its min corner at the anchor and the
\* size bounding_size + 2 * window_padding; the popup region starts at anchor
\* + window_padding with bounding_size (0,0).
C10_WindowIsBoundingPlusPadding ==
    /\ last.op = "show_popup" =>
          /\ hovering_graphics[WindowAt].pos = last.window_pos
          /\ hovering_graphics[WindowAt].size =
                VAdd(last.region.bounding_size, VScale(2, DefaultOptions.window_padding))
    /\ last.op = "show_popup_enter" =>
          /\ TopRegion.cursor = VAdd(last.window_pos, DefaultOptions.window_padding)
          /\ TopRegion.bounding_size = vec2(0, 0)

\* C10 amended: the Window command has its min corner at the anchor and the
\* size bounding_size - item_spacing + 2 * window_padding (the item spacing of
\* the last reservation is taken off); the popup region starts at anchor +
\* window_padding with bounding_size (0,0).
C10_WindowRect ==
    /\ last.op = "show_popup" =>
          /\ hovering_graphics[WindowAt].cmd = "Window"
          /\ hovering_graphics[WindowAt].pos = last.window_pos
          /\ hovering_graphics[WindowAt].size =
                VAdd(VSub(last.region.bounding_size, Spacing),
                     VScale(2, DefaultOptions.window_padding))
    /\ last.op = "show_popup_enter" =>
          /\ TopRegion.cursor = VAdd(last.window_pos, DefaultOptions.window_padding)
          /\ TopRegion.bounding_size = vec2(0, 0)

\* C10 witness: a popup anchored at (40,40) whose content reserved (30,14) has
\* returned; its window is 30 + 12 wide and 14 + 12 high.
C10_Witness ==
    /\ last.op = "show_popup"
    /\ last.window_pos = vec2(40, 40)
    /\ PopupObs.reserved = << vec2(30, 14) >>
    /\ hovering_graphics[WindowAt].size = vec2(42, 26)

\* the overlay positions filled since the popup that has just returned was
\* entered
SinceEntry == (OverlayAtEntry + 1)..Len(hovering_graphics)

\* C21: when a show_popup returns, the base layer is what it was when the
\* call was entered; of what the overlay got since, the commands of popups
\* opened inside the content, each block headed by its Window command, come
\* before this popup's Window command, and from that Window command on the
\* overlay holds the commands this popup's own content pushed and nothing of
\* an inner popup; while a popup's content runs, nothing of that popup is in
\* the overlay yet.
C21_NestedPopups ==
    /\ last.op = "show_popup" =>
          LET s == PopupObs.serial
          IN  /\ graphics = PopupObs.base_at_entry
              /\ \A i, j \in SinceEntry :
                    (hovering_graphics[i].owner # s /\ hovering_graphics[j].owner = s)
                        => i < j
              /\ \A i \in SinceEntry :
                    hovering_graphics[i].owner # s =>
                        /\ hovering_graphics[i].owner > s
                        /\ \E k \in SinceEntry :
                              /\ k <= i
                              /\ hovering_graphics[k].cmd = "Window"
                              /\ hovering_graphics[k].owner = hovering_graphics[i].owner
              /\ \E w \in SinceEntry :
                    /\ hovering_graphics[w].cmd = "Window"
                    /\ hovering_graphics[w].owner = s
                    /\ SubSeq(hovering_graphics, w + 1, Len(hovering_graphics))
                          = PopupObs.emitted
              /\ \A k \in 1..Len(PopupObs.emitted) : PopupObs.emitted[k].owner = s
    /\ \A i \in 1..Len(stack) :
          stack[i].kind = "popup" =>
              \A k \in 1..Len(hovering_graphics) :
                  hovering_graphics[k].owner # obs[i].serial

\* C21 witness: a popup whose content pushed a command and opened a popup of
\* its own has returned; the inner Window is in the overlay before the outer
\* one, which the outer content's command follows.
C21_Witness ==
    /\ last.op = "show_popup"
    /\ Len(stack) = 1
    /\ OverlayAtEntry = 0
    /\ Len(hovering_graphics) = 3
    /\ hovering_graphics[1].cmd = "Window"
    /\ hovering_graphics[1].owner > PopupObs.serial
    /\ hovering_graphics[2].cmd = "Window"
    /\ hovering_graphics[2].owner = PopupObs.serial
    /\ << hovering_graphics[3] >> = PopupObs.emitted
    /\ graphics = << >>

(***************************************************************************)
(* Widgets: identity, foldable, checkbox, slider, columns.                 *)
(***************************************************************************)
\* number of distinct child keys the model hashes
MaxKeys == 7
\* number of commands an abandoned frame may leave in the layers
MaxCarried == 2

\* keys of the widgets: their texts, and ("column", col_idx)
Key == [foldable |-> 1, checkbox |-> 2, slider |-> 3, column |-> 4]
ColumnKey(col_idx) == Key.column + col_idx

\* what layout_text measures for the one-line texts of the widgets; its height
\* is the font's line_spacing
TextSize == vec2(20, 14)
line_spacing == TextSize.y

\* the value ranges sliders are called with
SliderRanges == { [min |-> 0, max |-> 10] }

\* mouse positions of the widget frames: left of the screen, on its left
\* edge, in the middle of its first row, and right of it
WidgetMousePositions == { vec2(0 - 5, 10), vec2(0, 10), vec2(200, 10), vec2(500, 10) }
WidgetInputs ==
    { i \in [ mouse_pos : WidgetMousePositions, mouse_down : BOOLEAN,
              mouse_clicked : BOOLEAN ] : i.mouse_clicked => i.mouse_down }

\* mouse positions of the foldable frames: on the first row, on the first
\* row of an indented content, and off the screen
FoldMousePositions == { vec2(30, 10), vec2(30, 30), vec2(500, 10) }
\* inputs of the frames the host may abandon: the mouse stays on the first
\* row
FrameInputs ==
    { i \in [ mouse_pos : { vec2(30, 10) }, mouse_down : BOOLEAN,
              mouse_clicked : BOOLEAN ] : i.mouse_clicked => i.mouse_down }
FoldInputs ==
    { i \in [ mouse_pos : FoldMousePositions, mouse_down : BOOLEAN,
              mouse_clicked : BOOLEAN ] : i.mouse_clicked => i.mouse_down }

\* DefaultHasher fed the parent id and then the key: taken as collision-free
\* on the keys 1..MaxKeys (the chain of keys, read as digits)
hash(parent_id, key) == parent_id * (MaxKeys + 1) + key

\* Region::make_child_id
make_child_id(self, child_id) == hash(self.id, child_id)

\* math::remap_clamp: linear from [from_min, from_max] to [to_min, to_max],
\* clamped at both ends
remap_clamp(from, from_min, from_max, to_min, to_max) ==
    IF from <= from_min THEN to_min
    ELSE IF from >= from_max THEN to_max
    ELSE to_min + ((to_max - to_min) * (from - from_min)) \div (from_max - from_min)

\* the positions for which the remap is exact in integers
RemapExact(from, from_min, from_max, to_min, to_max) ==
    \/ from <= from_min
    \/ from >= from_max
    \/ ((to_max - to_min) * (from - from_min)) % (from_max - from_min) = 0

\* Faulty variant of foldable_toggle: a click only ever opens.
foldable_toggle_open_only(mem, id, clicked) ==
    LET m == IF clicked THEN [mem EXCEPT !.open_foldables = @ \cup {id}] ELSE mem
    IN  [memory |-> m, open |-> (id \in m.open_foldables)]

\* Region::foldable, lines 429-439: the toggle under the Memory lock
foldable_toggle(mem, id, clicked) ==
    LET m == IF clicked
             THEN IF id \in mem.open_foldables
                  THEN [mem EXCEPT !.open_foldables = @ \ {id}]
                  ELSE [mem EXCEPT !.open_foldables = @ \cup {id}]
             ELSE mem
    IN  [memory |-> m, open |-> (id \in m.open_foldables)]

\* Faulty variant of checkbox_flip: flips while the widget is active.
checkbox_flip_while_active(checked, interact) ==
    IF interact.active THEN ~checked ELSE checked

\* Region::checkbox, lines 300-302
checkbox_flip(checked, interact) ==
    IF interact.clicked THEN ~checked ELSE checked

\* Faulty variant of slider_update: follows the mouse while hovered, not while
\* active.
slider_update_on_hover(value, interact, mouse_pos, slider_rect, min, max) ==
    IF interact.hovered
    THEN remap_clamp(mouse_pos.x, slider_rect.pos.x,
                     slider_rect.pos.x + slider_rect.size.x, min, max)
    ELSE value

\* Region::naked_slider_f32, lines 384-392
slider_update(value, interact, mouse_pos, slider_rect, min, max) ==
    IF interact.active
    THEN remap_clamp(mouse_pos.x, slider_rect.pos.x,
                     slider_rect.pos.x + slider_rect.size.x, min, max)
    ELSE value

\* Region::indent, lines 466-474: the indented child Region
indent_region(self, options) ==
    [ id              |-> self.id,
      dir             |-> self.dir,
      cursor          |-> VAdd(self.cursor, vec2(options.indent, 0)),
      bounding_size   |-> vec2(0, 0),
      available_space |-> VSub(self.available_space, vec2(options.indent, 0)) ]

\* Region::columns, line 523
column_width(self, options, num_columns) ==
    (self.available_space.x - options.item_spacing.x * (num_columns - 1)) \div num_columns

\* Region::columns, lines 526-533: the Region of column col_idx
column_region(self, options, num_columns, col_idx) ==
    [ id              |-> make_child_id(self, ColumnKey(col_idx)),
      dir             |-> "Vertical",
      cursor          |-> VAdd(self.cursor,
                               vec2(col_idx * (column_width(self, options, num_columns)
                                               + options.item_spacing.x), 0)),
      bounding_size   |-> vec2(0, 0),
      available_space |-> vec2(column_width(self, options, num_columns),
                               self.available_space.y) ]

RECURSIVE SumHeights(_)
SumHeights(columns) ==
    IF columns = << >> THEN 0
    ELSE Head(columns).bounding_size.y + SumHeights(Tail(columns))

\* Faulty variant of columns_max_height: the heights are added up.
columns_sum_height(columns) == SumHeights(columns)

RECURSIVE columns_max_height(_)
\* Region::columns, lines 538-542
columns_max_height(columns) ==
    IF columns = << >> THEN 0
    ELSE Max(Head(columns).bounding_size.y, columns_max_height(Tail(columns)))

\* Region::foldable, lines 452-454: self.id = id; self.indent(add_contents)
foldable_content_region(self, id, options) ==
    indent_region([self EXCEPT !.id = id], options)

\* Faulty variant of foldable_after_content: the id is not put back.
foldable_after_content_keep_id(self, old_id, child_region, options) ==
    reserve_space_inner(self, VAdd(vec2(options.indent, 0), child_region.bounding_size))

\* Region::indent, lines 476-477, and Region::foldable, line 455
foldable_after_content(self, old_id, child_region, options) ==
    [ reserve_space_inner(self, VAdd(vec2(options.indent, 0), child_region.bounding_size))
        EXCEPT !.id = old_id ]

\* Region::columns, line 544: what the parent reserves for the row
columns_after_content(self, columns) ==
    reserve_space_inner(self, vec2(self.available_space.x, columns_max_height(columns)))

(***************************************************************************)
(* Widget actions.                                                         *)
(***************************************************************************)
Options == DefaultOptions

\* a widget's GuiCmd: geometry, interaction and its semantic state
WidgetCmd(cmd, rect, interact, state) ==
    [ cmd |-> cmd, pos |-> rect.pos, size |-> rect.size, owner |-> Owner,
      n |-> nops + 1, interact |-> interact, state |-> state ]

FoldableEntry(region, old_id, id) ==
    [ kind |-> "foldable", region |-> region, num_graphics_before |-> 0,
      window_pos |-> vec2(0, 0), old_id |-> old_id, id |-> id ]

\* stands in the columns of an entry for the column in use, which is the
\* entry's region
InUse ==
    [ id |-> 0, dir |-> "Vertical", cursor |-> vec2(0, 0),
      bounding_size |-> vec2(0, 0), available_space |-> vec2(0, 0) ]

ColumnsEntry(columns) ==
    [ kind |-> "columns", region |-> columns[1], num_graphics_before |-> 0,
      window_pos |-> vec2(0, 0), columns |-> [columns EXCEPT ![1] = InUse], cur |-> 1 ]

\* the columns of the entry, the one in use written back
ColumnsOf(entry) == [entry.columns EXCEPT ![entry.cur] = entry.region]

\* what a reserve_space call made by a widget leaves in the observations
NoteReserve(size, interaction_id, r) ==
    /\ nops' = nops + 1
    /\ last' = [ op |-> "reserve_space", pre_active |-> memory.active_id,
                 interaction_id |-> interaction_id, size |-> size,
                 rect |-> r.rect, interact |-> r.interact,
                 pre |-> TopRegion ]
    /\ frameActive' = NoteActive(frameActive, interaction_id, r.interact)
    /\ sinceClick' = NoteActive(IF interaction_id.some /\ r.interact.clicked
                                THEN {} ELSE sinceClick,
                                interaction_id, r.interact)
    /\ lastClicked' = IF interaction_id.some /\ r.interact.clicked
                      THEN interaction_id ELSE lastClicked
    /\ held' = (held \/ (interaction_id.some /\ r.interact.clicked))

NoteCall(op) ==
    /\ last' = [op |-> op, pre_active |-> memory.active_id]
    /\ UNCHANGED << frameActive, sinceClick, lastClicked, held >>

\* Data::new_frame(gui_input) and the root Region of the frame
BeginFrame(gui_input) ==
    /\ input' = gui_input
    /\ memory' = new_frame(memory, gui_input)
    /\ phase' = "frame"
    /\ nops' = 0
    /\ stack' = << StackEntry("root", RootRegion, 0, vec2(0, 0)) >>
    /\ obs' = << ObsEntry(RootRegion, 0) >>
    /\ out' = << >>
    /\ last' = [op |-> "new_frame", pre_active |-> memory.active_id]
    /\ frameActive' = {}
    /\ sinceClick' = {}
    /\ held' = (held /\ gui_input.mouse_down)
    /\ wobs' = [ wobs EXCEPT
                   !.call = [ op |-> "new_frame", pre_memory |-> memory,
                              pre_phase |-> phase, toggled |-> wobs.toggled ],
                   !.toggled = {},
                   !.flips = IF gui_input.mouse_down /\ ~gui_input.mouse_clicked
                             THEN @ ELSE 0,
                   !.multi = IF gui_input.mouse_down /\ ~gui_input.mouse_clicked
                             THEN @ ELSE FALSE,
                   !.cb_calls = 0,
                   !.carried = Len(graphics) + Len(hovering_graphics) ]
    /\ UNCHANGED << graphics, hovering_graphics, lastClicked, app, conc >>

\* The host starts the next frame after it drained the last one.
WNewFrame ==
    /\ phase = "idle"
    /\ \E gui_input \in WidgetInputs : BeginFrame(gui_input)

\* The host starts the next frame of foldables and checkboxes.
FoldNewFrame ==
    /\ phase = "idle"
    /\ \E gui_input \in FoldInputs : BeginFrame(gui_input)

\* Region::label
WLabel ==
    /\ CanCall
    /\ LET c == GuiCmd("Text", TopRegion.cursor, TextSize)
           r == reserve_space(TopRegion, memory, input, Options, TextSize, None)
       IN  /\ graphics' = Append(graphics, c)
           /\ memory' = r.memory
           /\ stack' = SetTopRegion(stack, r.region)
           /\ obs' = Reserved(Emit(obs, c), TextSize)
           /\ NoteReserve(TextSize, None, r)
    /\ wobs' = [wobs EXCEPT !.call = [op |-> "label"]]
    /\ UNCHANGED << input, hovering_graphics, phase, out, app, conc >>

\* Region::foldable, up to the call of add_contents (to its end when closed)
FoldableEnter ==
    /\ CanCall
    /\ TopRegion.dir = "Vertical"
    /\ LET self   == TopRegion
           id     == make_child_id(self, Key.foldable)
           text_cursor == VAdd(self.cursor, Options.button_padding)
           size   == vec2(self.available_space.x,
                          TextSize.y + 2 * Options.button_padding.y)
           r      == reserve_space(self, memory, input, Options, size, Some(id))
           t      == foldable_toggle(r.memory, id, r.interact.clicked)
           header == WidgetCmd("FoldableHeader", r.rect, r.interact, t.open)
           text   == GuiCmd("Text",
                            VAdd(text_cursor, vec2(Options.start_icon_width, 0)),
                            TextSize)
       IN  /\ t.open => Len(stack) <= MaxDepth
           /\ memory' = t.memory
           /\ graphics' = graphics \o << header, text >>
           /\ stack' =
                IF t.open
                THEN Append(SetTopRegion(stack, [r.region EXCEPT !.id = id]),
                            FoldableEntry(foldable_content_region(r.region, id, Options),
                                          self.id, id))
                ELSE SetTopRegion(stack, r.region)
           /\ obs' =
                IF t.open
                THEN Append(Reserved(Emit(Emit(obs, header), text), size),
                            ObsEntry(foldable_content_region(r.region, id, Options), 0))
                ELSE Reserved(Emit(Emit(obs, header), text), size)
           /\ NoteReserve(size, Some(id), r)
           /\ wobs' = [ wobs EXCEPT
                          !.call = [ op |-> "foldable", id |-> id,
                                     parent_id |-> self.id,
                                     clicked |-> r.interact.clicked,
                                     open |-> t.open,
                                     pre_foldables |-> memory.open_foldables,
                                     header |-> header ],
                          !.closed = @ \cup (memory.open_foldables
                                                \ t.memory.open_foldables),
                          !.left = t.memory.open_foldables,
                          !.toggled = IF r.interact.clicked THEN @ \cup {id} ELSE @ ]
    /\ UNCHANGED << input, hovering_graphics, phase, out, app, conc >>

\* Region::foldable, after add_contents returned
FoldableReturn ==
    /\ phase = "frame"
    /\ Len(stack) > 1
    /\ Top.kind = "foldable"
    /\ LET parent == Len(stack) - 1
       IN  /\ stack' = [ SubSeq(stack, 1, parent) EXCEPT
                           ![parent].region =
                               foldable_after_content(@, Top.old_id, TopRegion, Options) ]
           /\ obs' = [SubSeq(obs, 1, parent) EXCEPT ![parent].only_reserve = FALSE]
    /\ NoteCall("foldable_return")
    /\ wobs' = [ wobs EXCEPT !.call = [ op |-> "foldable_return", id |-> Top.id,
                                        old_id |-> Top.old_id ] ]
    /\ UNCHANGED << input, memory, graphics, hovering_graphics, phase, nops, out,
                    app, conc >>

\* Region::checkbox
Checkbox ==
    /\ CanCall
    /\ LET self == TopRegion
           id   == make_child_id(self, Key.checkbox)
           icon == vec2(Options.start_icon_width, 0)
           text_cursor == VAdd(VAdd(self.cursor, Options.button_padding), icon)
           size == VAdd(VAdd(VAdd(Options.button_padding, icon), TextSize),
                        Options.button_padding)
           r    == reserve_space(self, memory, input, Options, size, Some(id))
           checked == checkbox_flip(app.checked, r.interact)
           c    == WidgetCmd("Checkbox", r.rect, r.interact, checked)
           text == GuiCmd("Text", text_cursor, TextSize)
       IN  /\ app' = [app EXCEPT !.checked = checked]
           /\ memory' = r.memory
           /\ graphics' = graphics \o << c, text >>
           /\ stack' = SetTopRegion(stack, r.region)
           /\ obs' = Reserved(Emit(Emit(obs, c), text), size)
           /\ NoteReserve(size, Some(id), r)
           /\ wobs' = [ wobs EXCEPT
                          !.call = [ op |-> "checkbox", id |-> id,
                                     pre_checked |-> app.checked,
                                     interact |-> r.interact, cmd |-> c ],
                          !.flips = IF checked # app.checked THEN @ + 1 ELSE @,
                          !.cb_calls = @ + 1,
                          !.multi = @ \/ wobs.cb_calls >= 1 ]
    /\ UNCHANGED << input, hovering_graphics, phase, out, conc >>

\* Region::naked_slider_f32
NakedSlider ==
    /\ CanCall
    /\ \E range \in SliderRanges :
        LET self == TopRegion
            id   == make_child_id(self, Key.slider)
            size == vec2(self.available_space.x, line_spacing)
            r    == reserve_space(self, memory, input, Options, size, Some(id))
            value == slider_update(app.value, r.interact, input.mouse_pos, r.rect,
                                   range.min, range.max)
            c    == WidgetCmd("Slider", r.rect, r.interact,
                              [min |-> range.min, max |-> range.max, value |-> value])
        IN  /\ range.min <= range.max
            /\ size.x > 0
            /\ RemapExact(input.mouse_pos.x, r.rect.pos.x, r.rect.pos.x + r.rect.size.x,
                          range.min, range.max)
            /\ app' = [app EXCEPT !.value = value]
            /\ memory' = r.memory
            /\ graphics' = Append(graphics, c)
            /\ stack' = SetTopRegion(stack, r.region)
            /\ obs' = Reserved(Emit(obs, c), size)
            /\ NoteReserve(size, Some(id), r)
            /\ wobs' = [ wobs EXCEPT
                           !.call = [ op |-> "slider", id |-> id,
                                      pre_value |-> app.value, range |-> range,
                                      interact |-> r.interact, rect |-> r.rect,
                                      cmd |-> c ] ]
    /\ UNCHANGED << input, hovering_graphics, phase, out, conc >>

\* the numbers of columns asked for
ColumnCounts == { 2 }

\* Region::columns, up to the call of add_contents
ColumnsEnter ==
    /\ CanCall
    /\ Len(stack) <= MaxDepth
    /\ \E num_columns \in ColumnCounts :
        LET self    == TopRegion
            columns == [ i \in 1..num_columns |->
                           column_region(self, Options, num_columns, i - 1) ]
        IN  /\ (self.available_space.x - Options.item_spacing.x * (num_columns - 1))
                  % num_columns = 0
            /\ stack' = Append(stack, ColumnsEntry(columns))
            /\ obs' = Append(obs, [ObsEntry(columns[1], 0) EXCEPT !.only_reserve = FALSE])
            /\ wobs' = [ wobs EXCEPT
                           !.call = [ op |-> "columns_enter", parent |-> self,
                                      num_columns |-> num_columns ] ]
    /\ nops' = nops + 1
    /\ NoteCall("columns_enter")
    /\ UNCHANGED << input, memory, graphics, hovering_graphics, phase, out, app, conc >>

\* add_contents turns to another column: columns[col_idx]
ColumnsSelect ==
    /\ phase = "frame"
    /\ Len(stack) > 1
    /\ Top.kind = "columns"
    /\ \E col \in 1..Len(Top.columns) :
        /\ col # Top.cur
        /\ stack' = [ stack EXCEPT ![Len(stack)] =
                        [ @ EXCEPT !.columns = [ColumnsOf(Top) EXCEPT ![col] = InUse],
                                   !.region = ColumnsOf(Top)[col],
                                   !.cur = col ] ]
    /\ NoteCall("columns_select")
    /\ wobs' = [wobs EXCEPT !.call = [op |-> "columns_select"]]
    /\ UNCHANGED << input, memory, graphics, hovering_graphics, phase, nops, out,
                    obs, app, conc >>

\* Region::columns, after add_contents returned
ColumnsReturn ==
    /\ phase = "frame"
    /\ Len(stack) > 1
    /\ Top.kind = "columns"
    /\ LET parent == Len(stack) - 1
       IN  /\ stack' = [ SubSeq(stack, 1, parent) EXCEPT
                           ![parent].region = columns_after_content(@, ColumnsOf(Top)) ]
           /\ obs' = [SubSeq(obs, 1, parent) EXCEPT ![parent].only_reserve = FALSE]
           /\ wobs' = [ wobs EXCEPT
                          !.call = [ op |-> "columns", parent |-> stack[parent].region,
                                     columns |-> ColumnsOf(Top) ] ]
    /\ NoteCall("columns")
    /\ UNCHANGED << input, memory, graphics, hovering_graphics, phase, nops, out,
                    app, conc >>

\* GraphicLayers::drain, called by the host
HostDrain ==
    /\ LET d == drain(Layers)
       IN  /\ out' = d.all_commands
           /\ graphics' = d.layers.graphics
           /\ hovering_graphics' = d.layers.hovering_graphics
           /\ last' = [ op |-> "drain", pre_active |-> memory.active_id,
                        base |-> graphics, overlay |-> hovering_graphics ]
           /\ wobs' = [ wobs EXCEPT
                          !.call = [ op |-> "drain", pre_memory |-> memory,
                                     pre_phase |-> phase,
                                     base |-> graphics, overlay |-> hovering_graphics ] ]
    /\ phase' = "idle"
    /\ stack' = << >>
    /\ obs' = << >>
    /\ UNCHANGED << input, memory, nops, frameActive, sinceClick, lastClicked, held,
                    app, conc >>

\* The user callback has returned and the host drains the layers.
WDrain ==
    /\ phase = "frame"
    /\ Len(stack) = 1
    /\ HostDrain

\* The host gives up the frame being built, leaves the layers as they are
\* and starts the next frame.
AbandonFrame ==
    /\ phase = "frame"
    /\ Len(graphics) + Len(hovering_graphics) <= MaxCarried
    /\ \E gui_input \in FrameInputs : BeginFrame(gui_input)

\* The host starts the next frame after it drained the last one.
FrameNewFrame ==
    /\ phase = "idle"
    /\ \E gui_input \in FrameInputs : BeginFrame(gui_input)

\* The host drains again with no widget call since the last drain.
DrainAgain ==
    /\ phase = "idle"
    /\ wobs.call.op = "drain"
    /\ wobs.call.pre_phase = "frame"
    /\ HostDrain

\* one worker, frames of foldables and checkboxes
FoldNext ==
    \/ FoldNewFrame
    \/ FoldableEnter
    \/ FoldableReturn
    \/ Checkbox
    \/ WDrain

FoldSpec == Init /\ [][FoldNext]_vars

\* one worker, frames of labels and popups that the host drains, once or
\* twice
DrainNext ==
    \/ FrameNewFrame
    \/ WLabel
    \/ ShowPopupEnter
    \/ ShowPopupReturn
    \/ WDrain
    \/ DrainAgain

DrainSpec == Init /\ [][DrainNext]_vars

\* one worker, frames of foldables that the host drains or abandons
MemoryNext ==
    \/ FrameNewFrame
    \/ AbandonFrame
    \/ FoldableEnter
    \/ FoldableReturn
    \/ WDrain

MemorySpec == Init /\ [][MemoryNext]_vars

(***************************************************************************)
(* Concurrent workers.  Each critical section is two steps: Mutex::lock,   *)
(* and the body with the drop of the guard.  Regions are left out: a       *)
(* worker's commands carry its number and the popup whose content pushed   *)
(* them.                                                                   *)
(***************************************************************************)
\* widget calls the workers make in all
MaxWorkerOps == 3

\* the Mutex locked by the critical section at pc
LockOf(pc) == IF pc \in { "reserve", "toggle" } THEN "memory" ELSE "graphics"
Sections == { "reserve", "toggle", "header", "text", "label_text", "len", "splice" }
Free(lock) == \A w \in Workers : lock \notin conc.holds[w]

\* the mouse is clicked over the region of worker 1
Clicked(w) == w = 1
\* the worker's foldable: a child of the worker's Region
WorkerFoldable(w) == make_child_id([id |-> w], Key.foldable)

RECURSIVE PopupFrame(_, _)
\* index of the innermost show_popup among the frames fs at or below i
PopupFrame(fs, i) ==
    IF i = 0 THEN 0
    ELSE IF fs[i].kind = "popup" THEN i ELSE PopupFrame(fs, i - 1)

\* the show_popup call whose content worker w is running (0: none)
PopupOf(w) ==
    LET fs == conc.frames[w]
        i  == PopupFrame(fs, Len(fs))
    IN  IF i = 0 THEN 0 ELSE fs[i].serial

WorkerCmd(cmd, w) == [cmd |-> cmd, w |-> w, popup |-> PopupOf(w)]

\* the frames of w after its content pushed command c
Emitted(w, c) ==
    LET fs == conc.frames[w]
        i  == PopupFrame(fs, Len(fs))
    IN  IF i = 0 THEN fs ELSE [fs EXCEPT ![i].emitted = Append(@, c)]

\* Faulty variant of popup_len_release: the guard is bound to a variable that
\* lives to the end of show_popup.
popup_len_keep_guard(guards) == guards

\* show_popup, line 201: the guard is a temporary of the statement
popup_len_release(guards) == guards \ { "graphics" }

\* the variables of the single-worker frames, which the workers leave alone
rest == << input, stack, phase, nops, out, last, obs, frameActive, sinceClick,
           lastClicked, held, app, wobs >>

\* Region::label begins: add_text
StartLabel ==
    \E w \in Workers :
    /\ conc.pc[w] = "ready"
    /\ conc.ops < MaxWorkerOps
    /\ conc' = [conc EXCEPT !.pc[w] = "label_text", !.ops = @ + 1]
    /\ UNCHANGED << memory, graphics, hovering_graphics >>
    /\ UNCHANGED rest

\* Region::foldable begins: reserve_space
StartFoldable ==
    \E w \in Workers :
    /\ conc.pc[w] = "ready"
    /\ conc.ops < MaxWorkerOps
    /\ conc' = [conc EXCEPT !.pc[w] = "reserve", !.ops = @ + 1]
    /\ UNCHANGED << memory, graphics, hovering_graphics >>
    /\ UNCHANGED rest

\* show_popup begins, outside of any popup content
StartPopup ==
    \E w \in Workers :
    /\ conc.pc[w] = "ready"
    /\ conc.ops < MaxWorkerOps
    /\ PopupOf(w) = 0
    /\ conc' = [conc EXCEPT !.pc[w] = "len", !.ops = @ + 1]
    /\ UNCHANGED << memory, graphics, hovering_graphics >>
    /\ UNCHANGED rest

\* Mutex::lock().unwrap(): waits until the Mutex is free, panics when a
\* panic poisoned it
Lock ==
    \E w \in Workers :
    /\ conc.pc[w] \in Sections
    /\ ~conc.in[w]
    /\ Free(LockOf(conc.pc[w]))
    /\ conc' = IF LockOf(conc.pc[w]) \in conc.poisoned
               THEN [conc EXCEPT !.pc[w] = "panicked"]
               ELSE [conc EXCEPT !.in[w] = TRUE,
                                 !.holds[w] = @ \cup { LockOf(conc.pc[w]) }]
    /\ UNCHANGED << memory, graphics, hovering_graphics >>
    /\ UNCHANGED rest
\* Region::reserve_space, lines 562-570, under the Memory lock
ReserveBody ==
    \E w \in Workers :
    /\ conc.pc[w] = "reserve"
    /\ conc.in[w]
    /\ memory' = resolve_active(memory, Some(WorkerFoldable(w)), Clicked(w)).memory
    /\ conc' = [conc EXCEPT !.pc[w] = "toggle", !.in[w] = FALSE,
                            !.holds[w] = @ \ { "memory" }]
    /\ UNCHANGED << graphics, hovering_graphics >>
    /\ UNCHANGED rest

\* Region::foldable, lines 429-439, under the Memory lock
ToggleBody ==
    \E w \in Workers :
    /\ conc.pc[w] = "toggle"
    /\ conc.in[w]
    /\ LET t == foldable_toggle(memory, WorkerFoldable(w), Clicked(w))
       IN  /\ memory' = t.memory
           /\ conc' = [conc EXCEPT !.pc[w] = "header", !.in[w] = FALSE,
                                   !.holds[w] = @ \ { "memory" },
                                   !.open[w] = t.open]
    /\ UNCHANGED << graphics, hovering_graphics >>
    /\ UNCHANGED rest

\* Region::add_graphic of the FoldableHeader, under the graphics lock
PushHeader ==
    \E w \in Workers :
    /\ conc.pc[w] = "header"
    /\ conc.in[w]
    /\ LET c == WorkerCmd("FoldableHeader", w)
       IN  /\ graphics' = Append(graphics, c)
           /\ conc' = [conc EXCEPT !.pc[w] = "text", !.in[w] = FALSE,
                                   !.holds[w] = @ \ { "graphics" },
                                   !.frames[w] = Emitted(w, c),
                                   !.plain = IF c.popup = 0 THEN @ + 1 ELSE @]
    /\ UNCHANGED << memory, hovering_graphics >>
    /\ UNCHANGED rest

\* Region::add_graphic of a Text, under the graphics lock; after the text of
\* an open foldable its add_contents is called (through indent)
PushText ==
    \E w \in Workers :
    /\ conc.pc[w] \in { "text", "label_text" }
    /\ conc.in[w]
    /\ LET c == WorkerCmd("Text", w)
           fs == Emitted(w, c)
       IN  /\ graphics' = Append(graphics, c)
           /\ conc' = [conc EXCEPT
                         !.pc[w] = "ready", !.in[w] = FALSE,
                         !.holds[w] = @ \ { "graphics" },
                         !.frames[w] =
                             IF conc.pc[w] = "text" /\ conc.open[w]
                             THEN Append(fs, [ kind |-> "foldable",
                                               num_graphics_before |-> 0,
                                               serial |-> 0, emitted |-> << >> ])
                             ELSE fs,
                         !.plain = IF c.popup = 0 THEN @ + 1 ELSE @]
    /\ UNCHANGED << memory, hovering_graphics >>
    /\ UNCHANGED rest

\* show_popup, line 201, and the call of add_contents
PopupLen ==
    \E w \in Workers :
    /\ conc.pc[w] = "len"
    /\ conc.in[w]
    /\ conc' = [conc EXCEPT
                  !.pc[w] = "ready", !.in[w] = FALSE,
                  !.holds[w] = popup_len_release(@),
                  !.frames[w] = Append(@, [ kind |-> "popup",
                                            num_graphics_before |-> Len(graphics),
                                            serial |-> w * (MaxWorkerOps + 1) + conc.ops,
                                            emitted |-> << >> ])]
    /\ UNCHANGED << memory, graphics, hovering_graphics >>
    /\ UNCHANGED rest

\* add_contents returns: to foldable, which takes no lock any more, or to
\* show_popup, which goes on to line 222
ContentReturn ==
    \E w \in Workers :
    /\ conc.pc[w] = "ready"
    /\ conc.frames[w] # << >>
    /\ LET fs == conc.frames[w]
       IN  conc' = IF fs[Len(fs)].kind = "popup"
                   THEN [conc EXCEPT !.pc[w] = "splice"]
                   ELSE [conc EXCEPT !.frames[w] = SubSeq(fs, 1, Len(fs) - 1)]
    /\ UNCHANGED << memory, graphics, hovering_graphics >>
    /\ UNCHANGED rest

\* show_popup, lines 222-226, under the graphics lock; split_off panics when
\* `at` is beyond the length, and the panic poisons the Mutex
PopupSplice ==
    \E w \in Workers :
    /\ conc.pc[w] = "splice"
    /\ conc.in[w]
    /\ LET fs    == conc.frames[w]
           f     == fs[Len(fs)]
           window == [cmd |-> "Window", w |-> w, popup |-> f.serial]
       IN  IF f.num_graphics_before > Len(graphics)
           THEN /\ conc' = [conc EXCEPT
                              !.pc[w] = "panicked", !.in[w] = FALSE,
                              !.holds[w] = @ \ { "graphics" },
                              !.poisoned = @ \cup { "graphics" },
                              !.call = [ op |-> "split_off_panic", w |-> w,
                                         at |-> f.num_graphics_before,
                                         len |-> Len(graphics) ]]
                /\ UNCHANGED << graphics, hovering_graphics >>
           ELSE LET l == popup_splice(Layers, f.num_graphics_before, window)
                IN  /\ graphics' = l.graphics
                    /\ hovering_graphics' = l.hovering_graphics
                    /\ conc' = [conc EXCEPT
                                  !.pc[w] = "ready", !.in[w] = FALSE,
                                  !.holds[w] = @ \ { "graphics" },
                                  !.frames[w] = SubSeq(fs, 1, Len(fs) - 1),
                                  !.call = [ op |-> "show_popup", w |-> w,
                                             serial |-> f.serial,
                                             moved |-> split_off(graphics,
                                                        f.num_graphics_before).tail,
                                             emitted |-> f.emitted ]]
    /\ UNCHANGED memory
    /\ UNCHANGED rest

\* two workers on one frame
ConcNext ==
    \/ StartLabel
    \/ StartFoldable
    \/ StartPopup
    \/ Lock
    \/ ReserveBody
    \/ ToggleBody
    \/ PushHeader
    \/ PushText
    \/ PopupLen
    \/ ContentReturn
    \/ PopupSplice

ConcSpec == Init /\ [][ConcNext]_vars

(***************************************************************************)
(* Properties of the concurrent workers, checked under ConcSpec.           *)
(***************************************************************************)
\* worker w waits in Mutex::lock
Waiting(w) == conc.pc[w] \in Sections /\ ~conc.in[w]
\* add_contents of a call of worker w is running and w is between widgets
InContent(w) == conc.pc[w] = "ready" /\ conc.frames[w] # << >>
\* worker w has a step it can take
CanStep(w) ==
    \/ conc.in[w]
    \/ Waiting(w) /\ Free(LockOf(conc.pc[w]))
    \/ conc.pc[w] = "ready" /\ (conc.frames[w] # << >> \/ conc.ops < MaxWorkerOps)

\* C14: where add_contents is invoked and between widget calls a worker holds
\* neither the Memory nor the graphics lock; a worker that goes to lock one
\* of them holds none, so it never waits for a lock of its own and never has
\* both; whenever a worker waits for a lock, some worker can take a step.
C14_ShortCriticalSections ==
    \A w \in Workers :
        /\ InContent(w) => conc.holds[w] = {}
        /\ conc.pc[w] = "ready" => conc.holds[w] = {}
        /\ Waiting(w) => conc.holds[w] = {}
        /\ conc.holds[w] # Locks
        /\ conc.in[w] => conc.holds[w] = { LockOf(conc.pc[w]) }
        /\ Waiting(w) => \E v \in Workers : CanStep(v)

\* C14 witness: inside the content of its popup a worker holds the graphics
\* lock to push a command, and the other worker waits for that lock.
C14_Witness ==
    \E w, v \in Workers :
        /\ w # v
        /\ PopupOf(w) # 0
        /\ conc.pc[w] = "label_text"
        /\ conc.in[w]
        /\ conc.holds[w] = { "graphics" }
        /\ Waiting(v)
        /\ LockOf(conc.pc[v]) = "graphics"

\* C18 as stated: with two workers on one frame context, what a show_popup
\* moves to the overlay is what its own content pushed, no command pushed
\* outside of popup content is in the overlay or lost from the base layer,
\* and split_off is never asked for a position beyond the end of the base
\* layer.
C18_PopupSpliceUnderConcurrency ==
    /\ conc.call.op # "split_off_panic"
    /\ conc.call.op = "show_popup" => conc.call.moved = conc.call.emitted
    /\ \A i \in 1..Len(hovering_graphics) :
          hovering_graphics[i].cmd = "Window" \/ hovering_graphics[i].popup # 0
    /\ Cardinality({ i \in 1..Len(graphics) : graphics[i].popup = 0 }) = conc.plain

(***************************************************************************)
(* Properties of the frame cycle, checked under DrainSpec and MemorySpec.  *)
(***************************************************************************)
DrainCall == wobs.call.op = "drain"
\* new_frame was called and no widget since
NewFrameCall == wobs.call.op = "new_frame" /\ last.op = "new_frame"

\* C16: drain returns the base layer's commands, in the order they were
\* pushed, followed by the overlay's commands in the overlay's order, and
\* leaves both layers empty; a second drain with no widget call in between
\* returns nothing; a frame begun after a drain starts with empty layers, so
\* nothing of the frame before is in what its drain returns.
C16_DrainReturnsAndEmpties ==
    /\ DrainCall =>
          /\ out = wobs.call.base \o wobs.call.overlay
          /\ \A i, j \in 1..Len(wobs.call.base) : i < j => out[i].n <= out[j].n
          /\ graphics = << >>
          /\ hovering_graphics = << >>
          /\ wobs.call.pre_phase = "idle" => out = << >>
    /\ (NewFrameCall /\ wobs.call.pre_phase = "idle") =>
          /\ graphics = << >>
          /\ hovering_graphics = << >>
          /\ wobs.carried = 0

\* C16 witness: a drain of a frame with two labels in the base layer and a
\* popup's Window in the overlay returned them in this order.
C16_Witness ==
    /\ DrainCall
    /\ wobs.call.pre_phase = "frame"
    /\ Len(wobs.call.base) = 2
    /\ Len(wobs.call.overlay) = 1
    /\ wobs.call.base[1].n < wobs.call.base[2].n
    /\ SubSeq(out, 1, 2) = wobs.call.base
    /\ out[3].cmd = "Window"
    /\ graphics = << >>

\* C17: new_frame leaves open_foldables as it was and changes nothing in
\* Memory but active_id, which it clears when the mouse is up; drain leaves
\* Memory as it was; open_foldables is always what the last foldable call
\* left, after a drained frame as well as after an abandoned one.
C17_MemoryPersists ==
    /\ memory.open_foldables = wobs.left
    /\ NewFrameCall =>
          /\ memory.open_foldables = wobs.call.pre_memory.open_foldables
          /\ input.mouse_down => memory = wobs.call.pre_memory
          /\ ~input.mouse_down
                => memory = [wobs.call.pre_memory EXCEPT !.active_id = None]
    /\ DrainCall => memory = wobs.call.pre_memory

\* C17 witness: the frame before was abandoned after a click opened a
\* foldable in it; in the new frame, begun with the mouse still down, the
\* foldable is open and its id is the active one.
C17_Witness ==
    /\ NewFrameCall
    /\ wobs.call.pre_phase = "frame"
    /\ wobs.call.toggled # {}
    /\ wobs.call.toggled \subseteq memory.open_foldables
    /\ input.mouse_down
    /\ memory.active_id.some
    /\ memory.active_id.v \in wobs.call.toggled

(***************************************************************************)
(* Properties of the foldable and the checkbox, checked under FoldSpec.    *)
(***************************************************************************)
FoldableCall == wobs.call.op = "foldable"
\* the content of the foldable just called is being laid out
ContentLaidOut == Len(stack) > 1 /\ Top.kind = "foldable" /\ Top.id = wobs.call.id

\* C11: a click on the header of a foldable whose id is not in open_foldables
\* adds the id, a click while the id is in the set removes it and the content
\* is not laid out, a call without a click leaves the set as it was; the set
\* is the one the last foldable call left, so the next call with the same key
\* finds the id and lays the content out; the id is the same on every call
\* (the child id of the parent and the text), and the open flag of the
\* FoldableHeader command is the membership of the id after the toggle.
C11_FoldableToggling ==
    /\ memory.open_foldables = wobs.left
    /\ FoldableCall =>
          LET c == wobs.call
          IN  /\ c.id = make_child_id([id |-> c.parent_id], Key.foldable)
              /\ (c.clicked /\ c.id \notin c.pre_foldables)
                    => memory.open_foldables = c.pre_foldables \cup {c.id}
              /\ (c.clicked /\ c.id \in c.pre_foldables)
                    => /\ memory.open_foldables = c.pre_foldables \ {c.id}
                       /\ ~ContentLaidOut
              /\ ~c.clicked => memory.open_foldables = c.pre_foldables
              /\ (~c.clicked /\ c.id \in c.pre_foldables) => ContentLaidOut
              /\ c.open = (c.id \in memory.open_foldables)
              /\ c.header.cmd = "FoldableHeader"
              /\ c.header.state = (c.id \in memory.open_foldables)
              /\ ContentLaidOut <=> c.open

\* C11 witness: a foldable that a click had closed in an earlier frame is
\* clicked again and opens under the same id, its content laid out.
C11_Witness ==
    /\ FoldableCall
    /\ wobs.call.clicked
    /\ wobs.call.id \in wobs.closed
    /\ wobs.call.id \notin wobs.call.pre_foldables
    /\ wobs.call.id \in memory.open_foldables
    /\ ContentLaidOut

CheckboxCall == wobs.call.op = "checkbox"
\* the mouse is held down since an earlier frame
Holding == input.mouse_down /\ ~input.mouse_clicked

\* C12: a checkbox call negates the bound boolean exactly when its interact
\* is clicked, and the Checkbox command carries the value after the flip;
\* while the mouse is held down in the frames after the click the boolean is
\* not changed, so with one call per frame the boolean is flipped at most
\* once between the click edge and the release.
C12_CheckboxEdgeTriggered ==
    /\ CheckboxCall =>
          /\ wobs.call.interact.clicked => app.checked = ~wobs.call.pre_checked
          /\ ~wobs.call.interact.clicked => app.checked = wobs.call.pre_checked
          /\ wobs.call.cmd.cmd = "Checkbox"
          /\ wobs.call.cmd.state = app.checked
          /\ Holding => app.checked = wobs.call.pre_checked
    /\ ~wobs.multi => wobs.flips <= 1

\* C12 witness: the checkbox was clicked in an earlier frame and flipped to
\* TRUE; in a later frame of the hold it is called again, hovered and active,
\* and the boolean is still TRUE after one flip.
C12_Witness ==
    /\ CheckboxCall
    /\ Holding
    /\ wobs.call.interact.hovered
    /\ wobs.call.interact.active
    /\ ~wobs.multi
    /\ wobs.flips = 1
    /\ wobs.call.pre_checked
    /\ app.checked

\* C20: while the content of an open foldable runs, the content region's
\* id is the foldable's own id, the child id of the calling region's id and
\* the text, and a widget called in the content derives its id from it; when
\* foldable returns, with or without content, the calling region's id is what
\* it was before the call.
C20_FoldableIdScoping ==
    /\ \A i \in 1..Len(stack) :
          stack[i].kind = "foldable" =>
              stack[i].id = make_child_id([id |-> stack[i].old_id], Key.foldable)
    /\ (phase = "frame" /\ Top.kind = "foldable") => TopRegion.id = Top.id
    /\ (CheckboxCall /\ Top.kind = "foldable")
          => wobs.call.id = make_child_id([id |-> Top.id], Key.checkbox)
    /\ (FoldableCall /\ ContentLaidOut) => Top.old_id = wobs.call.parent_id
    /\ (FoldableCall /\ ~wobs.call.open) => TopRegion.id = wobs.call.parent_id
    /\ wobs.call.op = "foldable_return" => TopRegion.id = wobs.call.old_id

\* C20 witness: a foldable nested in the content of another has returned, and
\* the content region of the outer one has the outer foldable's id again.
C20_Witness ==
    /\ wobs.call.op = "foldable_return"
    /\ Len(stack) = 2
    /\ Top.kind = "foldable"
    /\ wobs.call.old_id = make_child_id(RootRegion, Key.foldable)
    /\ wobs.call.id = make_child_id([id |-> wobs.call.old_id], Key.foldable)
    /\ TopRegion.id = wobs.call.old_id

\* one worker, frames of columns, labels and sliders
ColumnsNext ==
    \/ WNewFrame
    \/ WLabel
    \/ NakedSlider
    \/ ColumnsEnter
    \/ ColumnsSelect
    \/ ColumnsReturn
    \/ WDrain

ColumnsSpec == Init /\ [][ColumnsNext]_vars

(***************************************************************************)
(* Properties of the slider and the columns, checked under ColumnsSpec.    *)
(***************************************************************************)
SliderCall == wobs.call.op = "slider"
\* the track of the slider just called: its left and right edge
TrackLeft == wobs.call.rect.pos.x
TrackRight == wobs.call.rect.pos.x + wobs.call.rect.size.x

\* C13: after naked_slider_f32 with min <= max, if the interact is active the
\* value is within [min, max], is min when the mouse is at or left of the
\* track's left edge, max when it is at or right of the right edge, and the
\* linear remap in between; if the slider is not active the value is what it
\* was; the Slider command carries the value after the update.
C13_SliderClampRemap ==
    SliderCall =>
        LET c   == wobs.call
            x   == input.mouse_pos.x
            min == c.range.min
            max == c.range.max
        IN  /\ c.interact.active =>
                  /\ min <= app.value /\ app.value <= max
                  /\ x <= TrackLeft => app.value = min
                  /\ x >= TrackRight => app.value = max
                  /\ (TrackLeft < x /\ x < TrackRight) =>
                        (app.value - min) * (TrackRight - TrackLeft)
                            = (max - min) * (x - TrackLeft)
            /\ ~c.interact.active => app.value = c.pre_value
            /\ c.cmd.cmd = "Slider"
            /\ c.cmd.state = [min |-> min, max |-> max, value |-> app.value]

\* C13 witness: a slider dragged from the middle of its track (value 5) is
\* still active with the mouse left of the track, not hovered, and its value
\* is min.
C13_Witness ==
    /\ SliderCall
    /\ wobs.call.interact.active
    /\ ~wobs.call.interact.hovered
    /\ input.mouse_pos.x < TrackLeft
    /\ wobs.call.pre_value = 5
    /\ app.value = wobs.call.range.min

\* the tallest of the columns
TallestColumn(columns) ==
    CHOOSE h \in { columns[i].bounding_size.y : i \in 1..Len(columns) } :
        \A i \in 1..Len(columns) : columns[i].bounding_size.y <= h

\* C19: when columns(n, content) begins, every column starts at the parent's
\* cursor.y, column i is offset in x by i * (column_width + item_spacing.x)
\* and has the child id of the parent's id and ("column", i); when it returns
\* in a Vertical parent, the parent's cursor.y has advanced by the largest
\* bounding_size.y of the columns and its cursor.x is unchanged.
C19_ColumnsRowHeight ==
    /\ wobs.call.op = "columns_enter" =>
          LET parent == wobs.call.parent
              n      == wobs.call.num_columns
              w      == (parent.available_space.x - Spacing.x * (n - 1)) \div n
              cols   == ColumnsOf(Top)
          IN  /\ Top.kind = "columns"
              /\ Len(cols) = n
              /\ \A i \in 0..(n - 1) :
                    /\ cols[i + 1].cursor.y = parent.cursor.y
                    /\ cols[i + 1].cursor.x = parent.cursor.x + i * (w + Spacing.x)
                    /\ cols[i + 1].id = hash(parent.id, ColumnKey(i))
    /\ (wobs.call.op = "columns" /\ wobs.call.parent.dir = "Vertical") =>
          /\ TopRegion.cursor.y
                = wobs.call.parent.cursor.y + TallestColumn(wobs.call.columns)
          /\ TopRegion.cursor.x = wobs.call.parent.cursor.x

\* C19 witness: columns returns after a label was put in each of two
\* columns; the parent's cursor went down by one label, not two.
C19_Witness ==
    /\ wobs.call.op = "columns"
    /\ Len(wobs.call.columns) = 2
    /\ wobs.call.columns[1].bounding_size.y = TextSize.y + Spacing.y
    /\ wobs.call.columns[2].bounding_size.y = TextSize.y + Spacing.y
    /\ TopRegion.cursor.y = wobs.call.parent.cursor.y + TextSize.y + Spacing.y

====
